---- MODULE Spec2Model ----
(***************************************************************************)
(* Pose Changer AI: the App component (the image-or-text variant) and the  *)
(* ImageUploader component, as a state machine.  The state is the React    *)
(* state of App; every event handler, and every continuation of an async   *)
(* function after an await, is one action.                                 *)
(*                                                                         *)
(* Strings are sequences of tokens, so that trim(), split(',') and the     *)
(* data-URL layout are computed and not assumed.  A nullable value is the  *)
(* empty sequence (null) or a one-element sequence holding the value.      *)
(***************************************************************************)
EXTENDS Naturals, Sequences, FiniteSets

VARIABLES
  originalImage,      \* ImageFile | null
  backgroundImage,    \* ImageFile | null
  clothingImage,      \* ImageFile | null
  generatedImage,     \* string | null
  prompt,             \* string
  clothingPrompt,     \* string
  backgroundPrompt,   \* string
  preserveBodyShape,  \* boolean
  isLoading,          \* boolean
  error,              \* string | null
  loaderPc,           \* where loadInitialImage stands
  loaderBlob,         \* the blob its FileReader is reading
  calls,              \* the changePose calls that have not settled yet
  nCalls,             \* history: number of changePose calls made so far
  observed,           \* history: the calls whose outcome was written, in that order
  nEdits,             \* history: number of user edits so far
  last                \* history: the event that led to this state

vars == <<originalImage, backgroundImage, clothingImage, generatedImage, prompt,
          clothingPrompt, backgroundPrompt, preserveBodyShape, isLoading, error,
          loaderPc, loaderBlob, calls, nCalls, observed, nEdits, last>>

submission == <<originalImage, backgroundImage, clothingImage, prompt,
                clothingPrompt, backgroundPrompt, preserveBodyShape>>

outcome == <<generatedImage, error, isLoading>>

loader == <<loaderPc, loaderBlob>>

-----------------------------------------------------------------------------
(* Bounds of the model. *)

\* changePose calls made in a run
MaxCalls == 2

\* user edits (typing, toggling, uploading, removing) in a run
MaxEdits == 2

-----------------------------------------------------------------------------
(* Values. *)

Null == <<>>

Some(x) == <<x>>

\* The texts a user types: empty, whitespace only, a word.
Texts == {<<>>, <<" ">>, <<"r">>}

\* The files a user picks or drops: a PNG, a PNG of zero bytes, a text file.
UserFiles ==
  { [type |-> <<"image/", "png">>,  bytes |-> <<"A">>],
    [type |-> <<"image/", "png">>,  bytes |-> <<>>],
    [type |-> <<"text/", "plain">>, bytes |-> <<"A">>] }

\* The media types the file input's accept attribute lists.
AcceptedTypes == { <<"image/", "png">>, <<"image/", "jpeg">>, <<"image/", "webp">> }

\* An image file of a type the accept attribute does not list.  A drop does
\* not pass through the picker, so the attribute does not filter it.
GifFile == [type |-> <<"image/", "gif">>, bytes |-> <<"G">>]

\* What INITIAL_IMAGE_URL serves.
SampleBlobs == { [type |-> <<"image/", "jpeg">>, bytes |-> <<"S">>] }

\* What a failing changePose throws: an Error with a message, or a non-Error.
ClientErrors ==
  { [isError |-> TRUE,  message |-> "timeout"],
    [isError |-> FALSE, message |-> "thrown"] }

Uploaders == {"source", "clothing", "background"}

\* JavaScript values passed where a string, null or undefined may stand.
JSNull == [t |-> "null", v |-> <<>>]

JSUndefined == [t |-> "undefined", v |-> <<>>]

JSStr(s) == [t |-> "string", v |-> s]

\* !x for such a value
Falsy(x) == x.t # "string" \/ x.v = <<>>

DescribeMsg == <<"Please describe what you want to change (pose, clothing, or background).">>

SampleMsg == <<"Could not load the sample image. Please upload your own.">>

FailPrefix == "Failed to generate new pose. "

InvalidUrlMsg == "Invalid image data URL."

UnknownMsg == "An unknown error occurred."

-----------------------------------------------------------------------------
(* Pure functions. *)

IsSpace(c) == c = " "

RECURSIVE TrimStart(_)
TrimStart(s) ==
  IF s # <<>> /\ IsSpace(Head(s)) THEN TrimStart(Tail(s)) ELSE s

RECURSIVE TrimEnd(_)
TrimEnd(s) ==
  IF s # <<>> /\ IsSpace(s[Len(s)]) THEN TrimEnd(SubSeq(s, 1, Len(s) - 1)) ELSE s

\* String.prototype.trim
Trim(s) == TrimEnd(TrimStart(s))

\* s.split(','): the segments between the commas
RECURSIVE Split(_)
Split(s) ==
  IF \A i \in 1..Len(s) : s[i] # ","
  THEN <<s>>
  ELSE LET k == CHOOSE i \in 1..Len(s) : s[i] = "," /\ \A j \in 1..(i - 1) : s[j] # ","
       IN  <<SubSeq(s, 1, k - 1)>> \o Split(SubSeq(s, k + 1, Len(s)))

\* dataUrl.split(',')[0]: the segment before the first comma.
PayloadOfHeader(dataUrl) == JSStr(Split(dataUrl)[1])

\* dataUrl.split(',')[1]
PayloadOf(dataUrl) ==
  LET parts == Split(dataUrl)
  IN  IF Len(parts) >= 2 THEN JSStr(parts[2]) ELSE JSUndefined

\* FileReader.readAsDataURL: "data:<type>;base64,<payload>"
ReadAsDataURL(file) == <<"data:">> \o file.type \o <<";base64", ",">> \o file.bytes

\* file.type.startsWith('image/')
StartsWithImage(type) == type # <<>> /\ type[1] = "image/"

\* The ImageFile that reader.onloadend hands to onImageUpload.
ImageFileOf(file) == [dataUrl |-> ReadAsDataURL(file), mimeType |-> file.type]

\* The modifier test with the reference images forgotten.
NoModifierTextOnly ==
  /\ Trim(prompt) = <<>>
  /\ Trim(clothingPrompt) = <<>>
  /\ Trim(backgroundPrompt) = <<>>

\* The test that opens handleGeneratePose (and closes isGenerationDisabled).
NoModifier ==
  /\ Trim(prompt) = <<>>
  /\ Trim(clothingPrompt) = <<>>
  /\ Trim(backgroundPrompt) = <<>>
  /\ backgroundImage = Null
  /\ clothingImage = Null

Rejected == originalImage = Null \/ NoModifier

isGenerationDisabled == isLoading \/ originalImage = Null \/ NoModifier

\* The arguments of the changePose call, in the order of the call.
ChangePoseArgs ==
  [ base64Data        |-> PayloadOf(originalImage[1].dataUrl),
    mimeType          |-> originalImage[1].mimeType,
    backgroundData    |-> IF backgroundImage # Null
                          THEN PayloadOf(backgroundImage[1].dataUrl) ELSE JSNull,
    backgroundMime    |-> IF backgroundImage # Null
                          THEN JSStr(backgroundImage[1].mimeType) ELSE JSNull,
    clothingData      |-> IF clothingImage # Null
                          THEN PayloadOf(clothingImage[1].dataUrl) ELSE JSNull,
    clothingMime      |-> IF clothingImage # Null
                          THEN JSStr(clothingImage[1].mimeType) ELSE JSNull,
    prompt            |-> prompt,
    backgroundPrompt  |-> backgroundPrompt,
    clothingPrompt    |-> clothingPrompt,
    preserveBodyShape |-> preserveBodyShape ]

\* The history record of an event: the handler that ran; for a generate
\* trigger whether it passed the opening test, whether it called changePose,
\* and whether the Generate button was enabled; isLoading before the event;
\* the id of the call made or settled; what changePose threw; for a file
\* handed to an ImageUploader instance, the instance and the file.
Event(op, accepted, called, wasLoading, button, id, thrown) ==
  [op |-> op, accepted |-> accepted, called |-> called, wasLoading |-> wasLoading,
   button |-> button, id |-> id, thrown |-> thrown, upload |-> Null]

Plain(op) == Event(op, FALSE, FALSE, isLoading, FALSE, 0, Null)

\* The event of a file dropped on, or picked after a click on, instance u.
Uploaded(op, u, file) == [Plain(op) EXCEPT !.upload = Some([on |-> u, file |-> file])]

-----------------------------------------------------------------------------
(* The initial state: the first render, with loadInitialImage started. *)

Init ==
  /\ originalImage = Null
  /\ backgroundImage = Null
  /\ clothingImage = Null
  /\ generatedImage = Null
  /\ prompt = <<>>
  /\ clothingPrompt = <<>>
  /\ backgroundPrompt = <<>>
  /\ preserveBodyShape = TRUE
  /\ isLoading = TRUE
  /\ error = Null
  /\ loaderPc = "fetch"
  /\ loaderBlob = Null
  /\ calls = {}
  /\ nCalls = 0
  /\ observed = <<>>
  /\ nEdits = 0
  /\ last = Event("init", FALSE, FALSE, TRUE, FALSE, 0, Null)

-----------------------------------------------------------------------------
(* loadInitialImage *)

\* fetch rejects, the response is not ok, or response.blob() rejects:
\* catch, then finally.
LoaderFailed ==
  /\ loaderPc \in {"fetch", "blob"}
  /\ error' = SampleMsg
  /\ isLoading' = FALSE
  /\ loaderPc' = "done"
  /\ last' = Plain("loaderFailed")
  /\ UNCHANGED <<submission, generatedImage, loaderBlob, calls, nCalls, observed, nEdits>>

\* fetch resolves with an ok response; response.blob() is awaited.
LoaderFetched ==
  /\ loaderPc = "fetch"
  /\ loaderPc' = "blob"
  /\ last' = Plain("loaderFetched")
  /\ UNCHANGED <<submission, outcome, loaderBlob, calls, nCalls, observed, nEdits>>

\* response.blob() resolves: the reader is started, then finally runs.
LoaderBlob(blob) ==
  /\ loaderPc = "blob"
  /\ loaderBlob' = Some(blob)
  /\ isLoading' = FALSE
  /\ loaderPc' = "read"
  /\ last' = Plain("loaderBlob")
  /\ UNCHANGED <<submission, generatedImage, error, calls, nCalls, observed, nEdits>>

\* reader.onloadend
LoaderOnLoadEnd ==
  /\ loaderPc = "read"
  /\ originalImage' = Some(ImageFileOf(loaderBlob[1]))
  /\ loaderPc' = "done"
  /\ loaderBlob' = Null
  /\ last' = Plain("loaderOnLoadEnd")
  /\ UNCHANGED <<backgroundImage, clothingImage, prompt, clothingPrompt,
                 backgroundPrompt, preserveBodyShape, outcome, calls, nCalls,
                 observed, nEdits>>

-----------------------------------------------------------------------------
(* The form.  An onChange event carries a value other than the current one. *)

EditAs(event) ==
  /\ nEdits < MaxEdits
  /\ nEdits' = nEdits + 1
  /\ last' = event
  /\ UNCHANGED <<loader, calls, nCalls, observed>>

Edit(op) == EditAs(Plain(op))

\* The pose textarea's onChange with the calls in flight reading the live
\* text instead of the one their trigger captured.
SetPromptLive(t) ==
  /\ originalImage # Null
  /\ t # prompt
  /\ prompt' = t
  /\ nEdits < MaxEdits
  /\ nEdits' = nEdits + 1
  /\ calls' = {[c EXCEPT !.args.prompt = t] : c \in calls}
  /\ last' = Plain("setPrompt")
  /\ UNCHANGED <<originalImage, backgroundImage, clothingImage, clothingPrompt,
                 backgroundPrompt, preserveBodyShape, outcome, loader, nCalls,
                 observed>>

SetPrompt(t) ==
  /\ originalImage # Null
  /\ t # prompt
  /\ prompt' = t
  /\ Edit("setPrompt")
  /\ UNCHANGED <<originalImage, backgroundImage, clothingImage, clothingPrompt,
                 backgroundPrompt, preserveBodyShape, outcome>>

SetClothingPrompt(t) ==
  /\ originalImage # Null
  /\ clothingImage = Null
  /\ t # clothingPrompt
  /\ clothingPrompt' = t
  /\ Edit("setClothingPrompt")
  /\ UNCHANGED <<originalImage, backgroundImage, clothingImage, prompt,
                 backgroundPrompt, preserveBodyShape, outcome>>

SetBackgroundPrompt(t) ==
  /\ originalImage # Null
  /\ backgroundImage = Null
  /\ t # backgroundPrompt
  /\ backgroundPrompt' = t
  /\ Edit("setBackgroundPrompt")
  /\ UNCHANGED <<originalImage, backgroundImage, clothingImage, prompt,
                 clothingPrompt, preserveBodyShape, outcome>>

SetPreserveBodyShape(b) ==
  /\ originalImage # Null
  /\ b # preserveBodyShape
  /\ preserveBodyShape' = b
  /\ Edit("setPreserveBodyShape")
  /\ UNCHANGED <<originalImage, backgroundImage, clothingImage, prompt,
                 clothingPrompt, backgroundPrompt, outcome>>

RemoveClothingImage ==
  /\ clothingImage # Null
  /\ clothingImage' = Null
  /\ Edit("removeClothingImage")
  /\ UNCHANGED <<originalImage, backgroundImage, prompt, clothingPrompt,
                 backgroundPrompt, preserveBodyShape, outcome>>

RemoveBackgroundImage ==
  /\ backgroundImage # Null
  /\ backgroundImage' = Null
  /\ Edit("removeBackgroundImage")
  /\ UNCHANGED <<originalImage, clothingImage, prompt, clothingPrompt,
                 backgroundPrompt, preserveBodyShape, outcome>>

-----------------------------------------------------------------------------
(* ImageUploader *)

\* Which ImageUploader instances App renders.
Rendered(u) ==
  CASE u = "source"     -> ~(isLoading /\ originalImage = Null)
    [] u = "clothing"   -> clothingImage = Null
    [] u = "background" -> backgroundImage = Null

\* document.getElementById('file-input'): the first such element of the page.
FirstFileInput ==
  IF Rendered("source") THEN "source"
  ELSE IF Rendered("clothing") THEN "clothing"
  ELSE "background"

\* The image an instance's onImageUpload prop sets.
ImageOf(u) ==
  CASE u = "source"     -> originalImage
    [] u = "clothing"   -> clothingImage
    [] u = "background" -> backgroundImage

handleImageUpload(imageFile) ==
  /\ originalImage' = Some(imageFile)
  /\ generatedImage' = Null
  /\ error' = Null
  /\ UNCHANGED <<backgroundImage, clothingImage, prompt, clothingPrompt,
                 backgroundPrompt, preserveBodyShape, isLoading>>

\* The onImageUpload prop of each instance.
onImageUpload(u, imageFile) ==
  CASE u = "source"     -> handleImageUpload(imageFile)
    [] u = "clothing"   -> /\ clothingImage' = Some(imageFile)
                           /\ UNCHANGED <<originalImage, backgroundImage, prompt,
                                          clothingPrompt, backgroundPrompt,
                                          preserveBodyShape, outcome>>
    [] u = "background" -> /\ backgroundImage' = Some(imageFile)
                           /\ UNCHANGED <<originalImage, clothingImage, prompt,
                                          clothingPrompt, backgroundPrompt,
                                          preserveBodyShape, outcome>>

\* handleFileChange of instance u, with the read it starts run to its onloadend.
handleFileChange(u, file) ==
  IF StartsWithImage(file.type)
  THEN onImageUpload(u, ImageFileOf(file))
  ELSE UNCHANGED <<submission, outcome>>

\* A file dropped on instance u.
onDrop(u, file) ==
  /\ Rendered(u)
  /\ handleFileChange(u, file)
  /\ EditAs(Uploaded("drop", u, file))

\* A click on instance u, and a file chosen in the picker that opens.
onClick(u, file) ==
  /\ Rendered(u)
  /\ handleFileChange(FirstFileInput, file)
  /\ EditAs(Uploaded("click", u, file))

-----------------------------------------------------------------------------
(* handleGeneratePose *)

\* Up to the await of changePose: the early return, the throw before the
\* call (caught, then finally), or the call.  The handler reads neither
\* isLoading nor isGenerationDisabled, so it is a step of every state;
\* the event records whether the Generate button was enabled, that is,
\* whether a click could have delivered the trigger.
handleGeneratePose ==
  LET button == ~isGenerationDisabled IN
  IF Rejected
  THEN /\ error' = DescribeMsg
       /\ last' = Event("generate", FALSE, FALSE, isLoading, button, 0, Null)
       /\ UNCHANGED <<submission, generatedImage, isLoading, loader, calls, nCalls,
                      observed, nEdits>>
  ELSE IF Falsy(PayloadOf(originalImage[1].dataUrl))
  THEN /\ generatedImage' = Null
       /\ error' = <<FailPrefix, InvalidUrlMsg>>
       /\ isLoading' = FALSE
       /\ last' = Event("generate", TRUE, FALSE, isLoading, button, 0, Null)
       /\ UNCHANGED <<submission, loader, calls, nCalls, observed, nEdits>>
  ELSE /\ nCalls < MaxCalls
       /\ isLoading' = TRUE
       /\ error' = Null
       /\ generatedImage' = Null
       /\ nCalls' = nCalls + 1
       /\ calls' = calls \cup {[id |-> nCalls + 1, args |-> ChangePoseArgs]}
       /\ last' = Event("generate", TRUE, TRUE, isLoading, button, nCalls + 1, Null)
       /\ UNCHANGED <<submission, loader, observed, nEdits>>

\* changePose resolves: the rest of the try block, then finally.
ChangePoseResolved(c) ==
  /\ c \in calls
  /\ generatedImage' = Some(<<"image", c.id>>)
  /\ isLoading' = FALSE
  /\ calls' = calls \ {c}
  /\ observed' = Append(observed, [id |-> c.id, ok |-> TRUE, args |-> c.args])
  /\ last' = Event("resolved", FALSE, FALSE, isLoading, FALSE, c.id, Null)
  /\ UNCHANGED <<submission, error, loader, nCalls, nEdits>>

\* The catch block with the pose text cleared as well.
ChangePoseRejectedClearsPrompt(c, e) ==
  /\ c \in calls
  /\ error' = <<FailPrefix, IF e.isError THEN e.message ELSE UnknownMsg>>
  /\ prompt' = <<>>
  /\ isLoading' = FALSE
  /\ calls' = calls \ {c}
  /\ observed' = Append(observed, [id |-> c.id, ok |-> FALSE, args |-> c.args])
  /\ last' = Event("rejected", FALSE, FALSE, isLoading, FALSE, c.id, Some(e))
  /\ UNCHANGED <<originalImage, backgroundImage, clothingImage, clothingPrompt,
                 backgroundPrompt, preserveBodyShape, generatedImage, loader,
                 nCalls, nEdits>>

\* The catch block without the finally block after it.
ChangePoseRejectedNoFinally(c, e) ==
  /\ c \in calls
  /\ error' = <<FailPrefix, IF e.isError THEN e.message ELSE UnknownMsg>>
  /\ calls' = calls \ {c}
  /\ observed' = Append(observed, [id |-> c.id, ok |-> FALSE, args |-> c.args])
  /\ last' = Event("rejected", FALSE, FALSE, isLoading, FALSE, c.id, Some(e))
  /\ UNCHANGED <<submission, generatedImage, isLoading, loader, nCalls, nEdits>>

\* changePose rejects with e: catch, then finally.
ChangePoseRejected(c, e) ==
  /\ c \in calls
  /\ error' = <<FailPrefix, IF e.isError THEN e.message ELSE UnknownMsg>>
  /\ isLoading' = FALSE
  /\ calls' = calls \ {c}
  /\ observed' = Append(observed, [id |-> c.id, ok |-> FALSE, args |-> c.args])
  /\ last' = Event("rejected", FALSE, FALSE, isLoading, FALSE, c.id, Some(e))
  /\ UNCHANGED <<submission, generatedImage, loader, nCalls, nEdits>>

-----------------------------------------------------------------------------

Next ==
  \/ LoaderFailed
  \/ LoaderFetched
  \/ \E blob \in SampleBlobs : LoaderBlob(blob)
  \/ LoaderOnLoadEnd
  \/ \E t \in Texts : SetPrompt(t)
  \/ \E t \in Texts : SetClothingPrompt(t)
  \/ \E t \in Texts : SetBackgroundPrompt(t)
  \/ \E b \in BOOLEAN : SetPreserveBodyShape(b)
  \/ RemoveClothingImage
  \/ RemoveBackgroundImage
  \/ \E u \in Uploaders, file \in UserFiles : onDrop(u, file)
  \/ \E u \in Uploaders, file \in UserFiles : onClick(u, file)
  \/ handleGeneratePose
  \/ \E c \in calls : ChangePoseResolved(c)
  \/ \E c \in calls, e \in ClientErrors : ChangePoseRejected(c, e)

Spec == Init /\ [][Next]_vars

\* The promise of call id settles, one way or the other.
Settle(id) ==
  \E c \in calls :
    /\ c.id = id
    /\ \/ ChangePoseResolved(c)
       \/ \E e \in ClientErrors : ChangePoseRejected(c, e)

\* The program with a client whose every call returns or throws in the end.
SpecFair == Spec /\ \A id \in 1..MaxCalls : WF_vars(Settle(id))

\* The program with GIF files among those dropped.
NextWithGif ==
  \/ Next
  \/ \E u \in Uploaders : onDrop(u, GifFile)

SpecWithGif == Init /\ [][NextWithGif]_vars

-----------------------------------------------------------------------------
(* Properties. *)

\* A generate trigger has just been handled.
Triggered == last.op = "generate"

\* The call a trigger has just made.
CallOf(id) == CHOOSE c \in calls : c.id = id

\* C1: at most one changePose call is outstanding at any time; a trigger
\* handled while a generation is pending makes no second call.
C1_AtMostOneInFlight ==
  /\ Cardinality(calls) <= 1
  /\ (Triggered /\ last.wasLoading /\ nCalls > 0) => ~last.called

\* C2: a trigger without a source image is rejected, calls nothing, leaves
\* isLoading alone, and reports the missing source image: when a modifier
\* is active the message stored is not the one that asks for a modifier.
C2_NoSourceImage ==
  (Triggered /\ originalImage = Null) =>
     /\ ~last.accepted
     /\ ~last.called
     /\ isLoading = last.wasLoading
     /\ error # Null
     /\ (~NoModifier => error # DescribeMsg)

\* C3 as stated: with a source image, a trigger is rejected exactly when the
\* three texts are empty and no reference image is present.
C3_NonEmptyAccepted ==
  (Triggered /\ originalImage # Null) =>
     (last.accepted <=> ( \/ prompt # <<>>
                          \/ clothingPrompt # <<>>
                          \/ backgroundPrompt # <<>>
                          \/ clothingImage # Null
                          \/ backgroundImage # Null ))

\* One of the five modifier inputs holds more than white space.
ActiveModifier ==
  \/ Trim(prompt) # <<>>
  \/ Trim(clothingPrompt) # <<>>
  \/ Trim(backgroundPrompt) # <<>>
  \/ clothingImage # Null
  \/ backgroundImage # Null

\* C3 amended: with a source image, a trigger is rejected exactly when the
\* three texts are empty after trimming and no reference image is present;
\* a rejected trigger stores the describe-your-change message, makes no call
\* and leaves isLoading alone; an accepted one does not store that message.
C3_TrimmedModifier ==
  (Triggered /\ originalImage # Null) =>
     /\ last.accepted <=> ActiveModifier
     /\ ~last.accepted =>
          /\ error = DescribeMsg
          /\ ~last.called
          /\ isLoading = last.wasLoading
     /\ last.accepted => error # DescribeMsg

\* C3: a trigger with a source image was rejected for want of a modifier,
\* the pose text being white space.
C3_Witness ==
  /\ Triggered
  /\ originalImage # Null
  /\ ~last.accepted
  /\ prompt = <<" ">>
  /\ error = DescribeMsg

\* C4: no call carries, for clothing or for background, both a reference
\* image payload and a text of that category that is not blank.
C4_ImageNotText ==
  \A c \in calls :
     /\ ~(~Falsy(c.args.clothingData) /\ Trim(c.args.clothingPrompt) # <<>>)
     /\ ~(~Falsy(c.args.backgroundData) /\ Trim(c.args.backgroundPrompt) # <<>>)

\* C5: when changePose has just thrown an Error with message m, isLoading is
\* false, no result image is present and the stored message contains m.
C5_FailedCarriesMessage ==
  (last.op = "rejected" /\ last.thrown[1].isError) =>
     /\ ~isLoading
     /\ generatedImage = Null
     /\ error # Null
     /\ \E i \in 1..Len(error) : error[i] = last.thrown[1].message

\* The event was the failure of a generation: changePose threw, or the
\* handler threw before the call.
Failure(l) == l.op = "rejected" \/ (l.op = "generate" /\ l.accepted /\ ~l.called)

\* The state is Failed: the message of a failed generation is shown.
Failed == error # Null /\ error[1] = FailPrefix

\* C6: a failing generation leaves the seven submission fields as they are;
\* a trigger handled in the Failed state is accepted whenever the fields
\* held then have a source image and an active modifier, and the call it
\* makes carries the fields held at that trigger.
C6_RetryUsesLatest ==
  [][ /\ Failure(last') => submission' = submission
      /\ (Failed /\ last'.op = "generate") =>
            /\ last'.accepted <=> (originalImage # Null /\ ActiveModifier)
            /\ last'.called =>
                 \E c \in calls' \ calls :
                    /\ c.id = last'.id
                    /\ c.args.base64Data = PayloadOf(originalImage[1].dataUrl)
                    /\ c.args.mimeType = originalImage[1].mimeType
                    /\ c.args.clothingData # JSNull <=> clothingImage # Null
                    /\ c.args.backgroundData # JSNull <=> backgroundImage # Null
                    /\ c.args.prompt = prompt
                    /\ c.args.clothingPrompt = clothingPrompt
                    /\ c.args.backgroundPrompt = backgroundPrompt
                    /\ c.args.preserveBodyShape = preserveBodyShape
    ]_vars

\* C6: the first generation failed, the pose text was changed, and the
\* second generation, made with the changed text, succeeded.
C6_Witness ==
  /\ Len(observed) = 2
  /\ observed[1].id = 1 /\ ~observed[1].ok
  /\ observed[2].id = 2 /\ observed[2].ok
  /\ observed[1].args.prompt # observed[2].args.prompt
  /\ observed[2].args.prompt = prompt
  /\ generatedImage = Some(<<"image", 2>>)
  /\ error = Null
  /\ ~isLoading

\* C7: every call carries a non-empty payload for the source image and for
\* each reference image that is present.
C7_PayloadsPresent ==
  \A c \in calls :
     /\ ~Falsy(c.args.base64Data)
     /\ c.args.clothingData # JSNull => ~Falsy(c.args.clothingData)
     /\ c.args.backgroundData # JSNull => ~Falsy(c.args.backgroundData)

\* C8: a result image and a failure message are never present together.
C8_OutcomeExclusive == ~(generatedImage # Null /\ error # Null)

\* C9: outcomes are written in the order in which the calls were made, and
\* once no call is outstanding the last outcome written is that of the
\* last call made.
C9_OutcomesInOrder ==
  /\ \A i, j \in 1..Len(observed) : i < j => observed[i].id < observed[j].id
  /\ (calls = {} /\ nCalls > 0) => observed[Len(observed)].id = nCalls

\* C10: isLoading is true only while a changePose call made by a trigger is
\* outstanding.
C10_PendingOnlyByTrigger == isLoading => calls # {}

\* C11: the request of an accepted generation is a snapshot taken at the
\* trigger.  A call is made with the fields held at the trigger; until it
\* settles no step changes its arguments, whatever is edited; and when it
\* settles the outcome written is that of this very call, sent with those
\* arguments.
C11_RequestIsSnapshot ==
  [][ /\ \A c \in calls' \ calls :
           /\ c.args = ChangePoseArgs
           /\ \A d \in calls : d.id # c.id
      /\ \A c \in calls :
           \/ c \in calls'
           \/ /\ \A d \in calls' : d.id # c.id
              /\ Len(observed') = Len(observed) + 1
              /\ observed'[Len(observed')].id = c.id
              /\ observed'[Len(observed')].args = c.args
              /\ IF observed'[Len(observed')].ok
                 THEN generatedImage' = Some(<<"image", c.id>>)
                 ELSE error' # Null /\ error'[1] = FailPrefix ]_vars

\* A call has resolved after the pose text was changed while it was
\* outstanding.
C11_Witness ==
  /\ last.op = "resolved"
  /\ generatedImage = Some(<<"image", last.id>>)
  /\ observed[Len(observed)].args.prompt # prompt

\* C12: every image the submission holds (source, clothing reference,
\* background reference) has a media type among image/png, image/jpeg and
\* image/webp, and a file of any other type has just been refused: it did
\* not become the image of the instance it reached.
C12_AcceptedTypesOnly ==
  /\ \A image \in {originalImage, clothingImage, backgroundImage} :
       image # Null => image[1].mimeType \in AcceptedTypes
  /\ (last.upload # Null /\ last.upload[1].file.type \notin AcceptedTypes)
       => Some(ImageFileOf(last.upload[1].file))
            \notin {originalImage, clothingImage, backgroundImage}

\* The wire form of a held image: the payload and media type handed to
\* changePose.
WireForm(image) == [data |-> PayloadOf(image.dataUrl), mime |-> image.mimeType]

\* C13: round trip.  When a file of an image type is stored, by a drop, by
\* the picker or by the sample loader, the wire form of what was stored is
\* exactly the file's payload and the file's media type.
C13_RoundTrip ==
  [][ /\ (last'.upload # Null /\ StartsWithImage(last'.upload[1].file.type))
           => \E u \in Uploaders :
                /\ u = (IF last'.op = "drop" THEN last'.upload[1].on ELSE FirstFileInput)
                /\ ImageOf(u)' # Null
                /\ WireForm(ImageOf(u)'[1]) =
                     [data |-> JSStr(last'.upload[1].file.bytes),
                      mime |-> last'.upload[1].file.type]
      /\ last'.op = "loaderOnLoadEnd"
           => WireForm(originalImage'[1]) =
                [data |-> JSStr(loaderBlob[1].bytes), mime |-> loaderBlob[1].type] ]_vars

\* A call is outstanding that was sent with the payload and type of the PNG
\* the user uploaded as the source image.
C13_Witness ==
  /\ originalImage # Null
  /\ ReadAsDataURL([type |-> <<"image/", "png">>, bytes |-> <<"A">>]) = originalImage[1].dataUrl
  /\ \E c \in calls : /\ c.args.base64Data = JSStr(<<"A">>)
                      /\ c.args.mimeType = <<"image/", "png">>

\* C14: with a client that returns or throws in the end, every call made by
\* an accepted trigger is settled, and the state its settlement leaves is
\* not loading and shows a result or an error message; an accepted trigger
\* that makes no call leaves such a state at once.
C14_LeavesPending ==
  /\ \A id \in 1..MaxCalls :
       (\E c \in calls : c.id = id)
         ~> (/\ last.op \in {"resolved", "rejected"}
             /\ last.id = id
             /\ ~isLoading
             /\ (generatedImage # Null \/ error # Null))
  /\ []((Triggered /\ last.accepted /\ ~last.called)
          => (~isLoading /\ error # Null))

\* The only call made has been rejected: nothing is outstanding, loading is
\* over and the failure message is shown.
C14_Witness ==
  /\ last.op = "rejected"
  /\ nCalls = 1
  /\ calls = {}
  /\ ~isLoading
  /\ generatedImage = Null
  /\ error # Null

\* C15: once a source image is held, every step that changes it is a user
\* upload; the sample loader's reader callback does not replace it.
C15_LoaderNeverOverwrites ==
  [][ (originalImage # Null /\ originalImage' # originalImage)
        => (last'.upload # Null /\ last'.op \in {"drop", "click"}) ]_vars

\* C16: whenever a result is shown, the call that produced it was sent with
\* the payload and media type of the source image held now.
C16_ResultFromCurrentSource ==
  generatedImage # Null
    => /\ originalImage # Null
       /\ \E i \in 1..Len(observed) :
            /\ observed[i].ok
            /\ generatedImage = Some(<<"image", observed[i].id>>)
            /\ observed[i].args.base64Data = WireForm(originalImage[1]).data
            /\ observed[i].args.mimeType = WireForm(originalImage[1]).mime

\* C17: in every state, a changePose call is outstanding if and only if
\* isLoading is true.
C17_PendingIffOutstanding == (calls # {}) <=> isLoading

\* C18: a file chosen through the clothing or the background instance, by a
\* click or by a drop, becomes that instance's image when it is an image
\* file, and leaves the source image, the other reference image, the result
\* and the error as they were.
C18_UploaderOwnsItsField ==
  [][ \A u \in {"clothing", "background"} :
        (last'.upload # Null /\ last'.upload[1].on = u)
          => /\ UNCHANGED <<originalImage, generatedImage, error>>
             /\ \A v \in {"clothing", "background"} \ {u} : ImageOf(v)' = ImageOf(v)
             /\ StartsWithImage(last'.upload[1].file.type)
                  => ImageOf(u)' = Some(ImageFileOf(last'.upload[1].file)) ]_vars

====
